---- MODULE Spec2Model ----
(***************************************************************************)
(* The two-step bottle validation workflow of the dashboard page           *)
(* (src/src/app/dashboard/page.tsx) and the classification call it makes   *)
(* (src/src/ai/flows/suggest-bottle-type.ts).                              *)
(*                                                                         *)
(* The React component state is the model state.  A handler runs           *)
(* synchronously up to its await, so each handler is two actions: the part *)
(* before the await (the click) and the part after it (the call settling). *)
(* React renders after every such part, so the buttons a user can press    *)
(* are those renderScannerContent returns for the current state.           *)
(***************************************************************************)
EXTENDS Integers, Sequences, FiniteSets, TLC

\* Bounds of the model.
MaxCalls == 4
MaxSuggestions == 2

\* null / a present value (TypeScript's T | null and optional fields).
Null == <<>>
Some(v) == <<v>>
Val(o) == o[1]

\* Brand/type strings the service may produce (suggest-bottle-type.ts:50-51).
Labels == {"Coca-Cola", "Water Bottle"}

\* SuggestBottleTypeOutputSchema: suggestions is optional, both flags are
\* always present.  Nothing in the code ties the flags to the step asked for.
SuggestionLists == UNION {[1..n -> [type : Labels]] : n \in 0..MaxSuggestions}

SuggestBottleTypeOutput ==
    [suggestions : {Null} \cup {Some(s) : s \in SuggestionLists},
     isPlasticBottle : BOOLEAN,
     isDeposited : BOOLEAN]

\* The four messages setError is called with.
MsgNotBottle == "This doesn't look like a plastic bottle. Please try again."
MsgAnalysisError == "An error occurred during analysis. Please try again."
MsgNotDeposited == "Deposit not confirmed. Please ensure the bottle goes into the bin clearly."
MsgConfirmError == "An error occurred during confirmation. Please try again."

VARIABLES
    validationStep,      \* useState<ValidationStep>: "identify" | "confirm" | "done"
    isDetecting,         \* useState(false)
    detectedBottle,      \* useState<DetectedBottle | null>
    error,               \* useState<string | null>
    hasCameraPermission, \* useState<boolean | null>
    pending,             \* suggestBottleType calls awaited and not yet settled
    addBottleCalls,      \* the addBottle(type, size) calls made so far, in order
    nCalls,              \* number of suggestBottleType calls issued so far
    mounted,             \* the page component is mounted
    user,                \* useUser().user is set (a logged-in user)
    stream,              \* the MediaStream of getUserMedia: "none", "running" or "stopped"
    srcObject,           \* videoRef.current.srcObject holds the stream
    prompts,             \* the prompt invocations of suggestBottleTypeFlow, in order
    identified,          \* history: the call whose result last set detectedBottle, since the last reset
    nIdentified,         \* history: number of accepted identify results
    redeemed,            \* history: the value of identified at each addBottle call
    last                 \* history: the handler part that ran last

vars == <<validationStep, isDetecting, detectedBottle, error, hasCameraPermission,
          pending, addBottleCalls, nCalls, mounted, user, stream, srcObject, prompts,
          identified, nIdentified, redeemed, last>>

\* The four useState values the handlers write, as one record.
State == [validationStep |-> validationStep, isDetecting |-> isDetecting,
          detectedBottle |-> detectedBottle, error |-> error]

\* The state after a handler part that leaves the component in state s.
Set(s) ==
    /\ validationStep' = s.validationStep
    /\ isDetecting' = s.isDetecting
    /\ detectedBottle' = s.detectedBottle
    /\ error' = s.error

Event(op, call, aiResult) == [op |-> op, call |-> call, aiResult |-> aiResult]

Init ==
    /\ validationStep = "identify"
    /\ isDetecting = FALSE
    /\ detectedBottle = Null
    /\ error = Null
    /\ hasCameraPermission = Null
    /\ pending = {}
    /\ addBottleCalls = <<>>
    /\ nCalls = 0
    /\ mounted = TRUE
    /\ user \in BOOLEAN
    /\ stream = "none"
    /\ srcObject = FALSE
    /\ prompts = <<>>
    /\ identified = Null
    /\ nIdentified = 0
    /\ redeemed = <<>>
    /\ last = Event("init", Null, Null)

----------------------------------------------------------------------------
\* Camera acquisition (the second useEffect).

\* videoRef.current / canvasRef.current are set while the <video> and
\* <canvas> elements are rendered: the page is mounted and has a user.
videoRef == mounted /\ user
canvasRef == mounted /\ user

\* getUserMedia resolves: the stream is attached if the video element is
\* there, and setHasCameraPermission(true) runs either way.
getCameraPermissionGranted ==
    /\ hasCameraPermission = Null
    /\ stream' = "running"
    /\ srcObject' = IF videoRef THEN TRUE ELSE srcObject
    /\ hasCameraPermission' = Some(TRUE)
    /\ last' = Event("cameraGranted", Null, Null)
    /\ UNCHANGED <<validationStep, isDetecting, detectedBottle, error, pending,
                   addBottleCalls, nCalls, mounted, user, prompts, identified,
                   nIdentified, redeemed>>

\* getUserMedia rejects.
getCameraPermissionDenied ==
    /\ hasCameraPermission = Null
    /\ hasCameraPermission' = Some(FALSE)
    /\ last' = Event("cameraDenied", Null, Null)
    /\ UNCHANGED <<validationStep, isDetecting, detectedBottle, error, pending,
                   addBottleCalls, nCalls, mounted, user, stream, srcObject, prompts,
                   identified, nIdentified, redeemed>>

\* The effect's cleanup, given whether videoRef.current is still set when it
\* runs: stop the tracks of the attached stream.
Cleanup(ref) == IF ref /\ srcObject THEN "stopped" ELSE stream

\* The page is unmounted (navigation, or the redirect of a page without user)
\* and the effect's cleanup runs.  Whether the ref of a rendered video element
\* is still set at that moment depends on the order in which React detaches
\* refs and runs effect cleanups, so both are allowed.  The useState
\* variables keep recording what the setters are called with.
Unmount(ref) ==
    /\ mounted
    /\ ref => videoRef
    /\ mounted' = FALSE
    /\ stream' = Cleanup(ref)
    /\ last' = Event("unmounted", Null, Null)
    /\ UNCHANGED <<validationStep, isDetecting, detectedBottle, error,
                   hasCameraPermission, pending, addBottleCalls, nCalls, user,
                   srcObject, prompts, identified, nIdentified, redeemed>>

\* captureFrame: throws unless the video and canvas elements are mounted and
\* the canvas yields a 2d context; otherwise returns the JPEG data URI.
captureFrame(video, canvas, context) ==
    IF ~video \/ ~canvas THEN Null
    ELSE IF ~context THEN Null
    ELSE Some("data:image/jpeg;base64")

----------------------------------------------------------------------------
\* renderScannerContent.

\* Mutant: the error branch is missing, so the step's own buttons stay.
MutantRenderWithoutErrorBranch ==
    IF isDetecting THEN {}
    ELSE CASE validationStep = "identify" ->
                  IF isDetecting \/ hasCameraPermission # Some(TRUE)
                  THEN {} ELSE {"handleIdentifyBottle"}
           [] validationStep = "confirm" ->
                  (IF isDetecting THEN {} ELSE {"handleConfirmDeposit"})
                      \cup {"handleResetScanner"}
           [] validationStep = "done" -> {"handleResetScanner"}
           [] OTHER -> {}

\* Mutant: the error branch keeps the step's own button beside "Try Again".
MutantRenderRetryBesideError ==
    IF isDetecting THEN {}
    ELSE CASE validationStep = "identify" ->
                  IF hasCameraPermission # Some(TRUE)
                  THEN {} ELSE {"handleIdentifyBottle"}
           [] validationStep = "confirm" ->
                  {"handleConfirmDeposit", "handleResetScanner"}
           [] validationStep = "done" -> {"handleResetScanner"}
           [] OTHER -> {}

\* Mutant: the "done" view keeps the "Confirm Deposit" button.
MutantRenderConfirmWhenDone ==
    IF isDetecting THEN {}
    ELSE IF error # Null THEN {"handleResetScanner"}
    ELSE CASE validationStep = "identify" ->
                  IF isDetecting \/ hasCameraPermission # Some(TRUE)
                  THEN {} ELSE {"handleIdentifyBottle"}
           [] validationStep = "confirm" ->
                  (IF isDetecting THEN {} ELSE {"handleConfirmDeposit"})
                      \cup {"handleResetScanner"}
           [] validationStep = "done" -> {"handleConfirmDeposit", "handleResetScanner"}
           [] OTHER -> {}

\* Mutant: "Scan Another Bottle" is wired to handleIdentifyBottle.
MutantRenderScanWhenDone ==
    IF isDetecting THEN {}
    ELSE IF error # Null THEN {"handleResetScanner"}
    ELSE CASE validationStep = "identify" ->
                  IF isDetecting \/ hasCameraPermission # Some(TRUE)
                  THEN {} ELSE {"handleIdentifyBottle"}
           [] validationStep = "confirm" ->
                  (IF isDetecting THEN {} ELSE {"handleConfirmDeposit"})
                      \cup {"handleResetScanner"}
           [] validationStep = "done" -> {"handleIdentifyBottle"}
           [] OTHER -> {}

\* Mutant: "Scan Bottle" is disabled by isDetecting alone.
MutantRenderScanWithoutCamera ==
    IF isDetecting THEN {}
    ELSE IF error # Null THEN {"handleResetScanner"}
    ELSE CASE validationStep = "identify" ->
                  IF isDetecting THEN {} ELSE {"handleIdentifyBottle"}
           [] validationStep = "confirm" ->
                  (IF isDetecting THEN {} ELSE {"handleConfirmDeposit"})
                      \cup {"handleResetScanner"}
           [] validationStep = "done" -> {"handleResetScanner"}
           [] OTHER -> {}

\* What the scanner card offers: the handlers of the buttons a user can press
\* (a spinner while isDetecting, else the error with "Try Again", else the
\* buttons of the step; a disabled button offers nothing).
renderScannerContent ==
    IF isDetecting THEN {}
    ELSE IF error # Null THEN {"handleResetScanner"}
    ELSE CASE validationStep = "identify" ->
                  IF isDetecting \/ hasCameraPermission # Some(TRUE)
                  THEN {} ELSE {"handleIdentifyBottle"}
           [] validationStep = "confirm" ->
                  (IF isDetecting THEN {} ELSE {"handleConfirmDeposit"})
                      \cup {"handleResetScanner"}
           [] validationStep = "done" -> {"handleResetScanner"}
           [] OTHER -> {}

\* What the page offers: nothing once unmounted, the "Redirecting" view
\* without a user, else the scanner card.
DashboardPage ==
    IF ~mounted THEN {}
    ELSE IF ~user THEN {}
    ELSE renderScannerContent

----------------------------------------------------------------------------
\* suggestBottleType / suggestBottleTypeFlow.

\* Mutant: the flow invokes both prompts.
MutantFlowBothPrompts(input) ==
    <<[prompt |-> "identifyBottlePrompt", photoDataUri |-> input.photoDataUri],
      [prompt |-> "confirmDepositPrompt", photoDataUri |-> input.photoDataUri]>>

\* The prompt the flow invokes for a request: one, chosen by the step.
suggestBottleTypeFlow(input) ==
    IF input.validationStep = "identify"
    THEN <<[prompt |-> "identifyBottlePrompt", photoDataUri |-> input.photoDataUri]>>
    ELSE <<[prompt |-> "confirmDepositPrompt", photoDataUri |-> input.photoDataUri]>>

----------------------------------------------------------------------------
\* handleIdentifyBottle.

\* A call as the awaiting handler holds it: the request, the detectedBottle its
\* closure captured, and (history) the component state at the click.
Call(step, frame, closure) ==
    [id |-> nCalls + 1,
     input |-> [photoDataUri |-> Val(frame), validationStep |-> step],
     detectedBottle |-> closure,
     before |-> State]

\* Mutant: the handler forgets setIsDetecting(true).
MutantIdentifyStartIdle(s) == [s EXCEPT !.error = Null, !.detectedBottle = Null]

\* setIsDetecting(true); setError(null); setDetectedBottle(null)
IdentifyStart(s) ==
    [s EXCEPT !.isDetecting = TRUE, !.error = Null, !.detectedBottle = Null]

\* Mutant: the isPlasticBottle flag is not consulted.
MutantIdentifyAcceptsAnyList(aiResult) ==
    /\ aiResult.suggestions # Null
    /\ Len(Val(aiResult.suggestions)) > 0

\* aiResult.isPlasticBottle && aiResult.suggestions && aiResult.suggestions.length > 0
IdentifyAccepts(aiResult) ==
    /\ aiResult.isPlasticBottle
    /\ aiResult.suggestions # Null
    /\ Len(Val(aiResult.suggestions)) > 0

\* Mutant: the last suggestion is taken instead of the first.
MutantLastSuggestion(aiResult) ==
    Val(aiResult.suggestions)[Len(Val(aiResult.suggestions))]

\* const firstSuggestion = aiResult.suggestions[0]
firstSuggestion(aiResult) == Val(aiResult.suggestions)[1]

\* Mutant: the handler forgets setDetectedBottle.
MutantIdentifyThenNoBottle(s, aiResult) == [s EXCEPT !.validationStep = "confirm"]

\* setDetectedBottle({ type: firstSuggestion.type }); setValidationStep("confirm")
IdentifyThen(s, aiResult) ==
    [s EXCEPT !.detectedBottle = Some([type |-> firstSuggestion(aiResult).type]),
              !.validationStep = "confirm"]

\* setError("This doesn't look like a plastic bottle. Please try again.")
IdentifyElse(s) == [s EXCEPT !.error = Some(MsgNotBottle)]

\* catch: setError("An error occurred during analysis. Please try again.")
IdentifyCatch(s) == [s EXCEPT !.error = Some(MsgAnalysisError)]

\* Mutant: the finally block is missing.
MutantFinallyMissing(s) == s

\* finally: setIsDetecting(false)
Finally(s) == [s EXCEPT !.isDetecting = FALSE]

\* The click on "Scan Bottle": runs to the await, or through catch and
\* finally when captureFrame throws.
handleIdentifyBottle(context) ==
    /\ "handleIdentifyBottle" \in DashboardPage
    /\ nCalls < MaxCalls
    /\ LET dataUri == captureFrame(videoRef, canvasRef, context) IN
       IF dataUri = Null
       THEN /\ Set(Finally(IdentifyCatch(IdentifyStart(State))))
            /\ last' = Event("identifyCaptureFailed", Null, Null)
            /\ UNCHANGED <<pending, nCalls, prompts>>
       ELSE /\ Set(IdentifyStart(State))
            /\ pending' = pending \cup {Call("identify", dataUri, Null)}
            /\ nCalls' = nCalls + 1
            /\ prompts' = prompts \o suggestBottleTypeFlow(Call("identify", dataUri, Null).input)
            /\ last' = Event("identifyCalled", Some(Call("identify", dataUri, Null)), Null)
    /\ UNCHANGED <<hasCameraPermission, mounted, user, stream, srcObject, addBottleCalls, identified,
                   nIdentified, redeemed>>

\* The awaited call returns aiResult.
handleIdentifyBottleResolved(c, aiResult) ==
    /\ c \in pending
    /\ c.input.validationStep = "identify"
    /\ pending' = pending \ {c}
    /\ IF IdentifyAccepts(aiResult)
       THEN /\ Set(Finally(IdentifyThen(State, aiResult)))
            /\ identified' = Some([id |-> c.id,
                                   detectedBottle |-> IdentifyThen(State, aiResult).detectedBottle])
            /\ nIdentified' = nIdentified + 1
       ELSE /\ Set(Finally(IdentifyElse(State)))
            /\ UNCHANGED <<identified, nIdentified>>
    /\ last' = Event("identifyReturned", Some(c), Some(aiResult))
    /\ UNCHANGED <<hasCameraPermission, mounted, user, stream, srcObject, addBottleCalls, nCalls,
                   prompts, redeemed>>

\* The awaited call throws.
handleIdentifyBottleRejected(c) ==
    /\ c \in pending
    /\ c.input.validationStep = "identify"
    /\ pending' = pending \ {c}
    /\ Set(Finally(IdentifyCatch(State)))
    /\ last' = Event("identifyServiceFailed", Some(c), Null)
    /\ UNCHANGED <<hasCameraPermission, mounted, user, stream, srcObject, addBottleCalls, nCalls,
                   prompts, identified, nIdentified, redeemed>>

----------------------------------------------------------------------------
\* handleConfirmDeposit.

\* setIsDetecting(true); setError(null)
ConfirmStart(s) == [s EXCEPT !.isDetecting = TRUE, !.error = Null]

\* Mutant: a bottle in the picture is taken for a deposit.
MutantConfirmAcceptsBottle(aiResult) == aiResult.isDeposited \/ aiResult.isPlasticBottle

\* if (aiResult.isDeposited)
ConfirmAccepts(aiResult) == aiResult.isDeposited

\* Mutant: the label is taken from the confirm result when it carries one.
MutantConfirmEmitsRederived(bottle, aiResult) ==
    IF aiResult.suggestions # Null /\ Len(Val(aiResult.suggestions)) > 0
    THEN <<[type |-> Val(aiResult.suggestions)[1].type, size |-> 0]>>
    ELSE <<[type |-> bottle.type, size |-> 0]>>

\* addBottle(detectedBottle.type, 0), with the detectedBottle of the closure.
ConfirmEmits(bottle, aiResult) == <<[type |-> bottle.type, size |-> 0]>>

\* Mutant: the handler forgets setValidationStep("done").
MutantConfirmThenStays(s) == s

\* setValidationStep("done")
ConfirmThen(s) == [s EXCEPT !.validationStep = "done"]

\* Mutant: a rejected deposit sends the session back to the first step.
MutantConfirmElseRestart(s) ==
    [s EXCEPT !.error = Some(MsgNotDeposited), !.detectedBottle = Null,
              !.validationStep = "identify"]

\* setError("Deposit not confirmed. Please ensure the bottle goes into the bin clearly.")
ConfirmElse(s) == [s EXCEPT !.error = Some(MsgNotDeposited)]

\* Mutant: a failed confirmation drops the detected bottle.
MutantConfirmCatchClears(s) ==
    [s EXCEPT !.error = Some(MsgConfirmError), !.detectedBottle = Null]

\* catch: setError("An error occurred during confirmation. Please try again.")
ConfirmCatch(s) == [s EXCEPT !.error = Some(MsgConfirmError)]

\* The click on "Confirm Deposit": returns at once without a detected bottle,
\* else runs to the await, or through catch and finally when captureFrame throws.
handleConfirmDeposit(context) ==
    /\ "handleConfirmDeposit" \in DashboardPage
    /\ nCalls < MaxCalls
    /\ LET dataUri == captureFrame(videoRef, canvasRef, context) IN
       IF detectedBottle = Null
       THEN /\ last' = Event("confirmNoBottle", Null, Null)
            /\ UNCHANGED <<validationStep, isDetecting, detectedBottle, error,
                           pending, nCalls, prompts>>
       ELSE IF dataUri = Null
       THEN /\ Set(Finally(ConfirmCatch(ConfirmStart(State))))
            /\ last' = Event("confirmCaptureFailed", Null, Null)
            /\ UNCHANGED <<pending, nCalls, prompts>>
       ELSE /\ Set(ConfirmStart(State))
            /\ pending' = pending \cup {Call("confirm", dataUri, detectedBottle)}
            /\ nCalls' = nCalls + 1
            /\ prompts' = prompts \o
                   suggestBottleTypeFlow(Call("confirm", dataUri, detectedBottle).input)
            /\ last' = Event("confirmCalled",
                             Some(Call("confirm", dataUri, detectedBottle)), Null)
    /\ UNCHANGED <<hasCameraPermission, mounted, user, stream, srcObject, addBottleCalls, identified,
                   nIdentified, redeemed>>

\* The awaited call returns aiResult.
handleConfirmDepositResolved(c, aiResult) ==
    /\ c \in pending
    /\ c.input.validationStep = "confirm"
    /\ pending' = pending \ {c}
    /\ IF ConfirmAccepts(aiResult)
       THEN /\ addBottleCalls' = addBottleCalls \o ConfirmEmits(Val(c.detectedBottle), aiResult)
            /\ redeemed' = Append(redeemed, identified)
            /\ Set(Finally(ConfirmThen(State)))
       ELSE /\ Set(Finally(ConfirmElse(State)))
            /\ UNCHANGED <<addBottleCalls, redeemed>>
    /\ last' = Event("confirmReturned", Some(c), Some(aiResult))
    /\ UNCHANGED <<hasCameraPermission, mounted, user, stream, srcObject, nCalls, prompts, identified,
                   nIdentified>>

\* The awaited call throws.
handleConfirmDepositRejected(c) ==
    /\ c \in pending
    /\ c.input.validationStep = "confirm"
    /\ pending' = pending \ {c}
    /\ Set(Finally(ConfirmCatch(State)))
    /\ last' = Event("confirmServiceFailed", Some(c), Null)
    /\ UNCHANGED <<hasCameraPermission, mounted, user, stream, srcObject, addBottleCalls, nCalls,
                   prompts, identified, nIdentified, redeemed>>

----------------------------------------------------------------------------
\* handleResetScanner.

\* Mutant: the reset forgets setDetectedBottle(null).
MutantResetScannerKeepsBottle(s) ==
    [s EXCEPT !.error = Null, !.validationStep = "identify"]

\* setError(null); setDetectedBottle(null); setValidationStep("identify")
ResetScanner(s) ==
    [s EXCEPT !.error = Null, !.detectedBottle = Null, !.validationStep = "identify"]

\* The click on "Try Again", "Cancel" or "Scan Another Bottle".
handleResetScanner ==
    /\ "handleResetScanner" \in DashboardPage
    /\ Set(ResetScanner(State))
    /\ identified' = Null
    /\ last' = Event("reset", Null, Null)
    /\ UNCHANGED <<hasCameraPermission, mounted, user, stream, srcObject, pending, addBottleCalls,
                   nCalls, prompts, nIdentified, redeemed>>

----------------------------------------------------------------------------
Next ==
    \/ getCameraPermissionGranted
    \/ getCameraPermissionDenied
    \/ \E ref \in BOOLEAN : Unmount(ref)
    \/ \E context \in BOOLEAN : handleIdentifyBottle(context)
    \/ \E c \in pending, aiResult \in SuggestBottleTypeOutput :
           handleIdentifyBottleResolved(c, aiResult)
    \/ \E c \in pending : handleIdentifyBottleRejected(c)
    \/ \E context \in BOOLEAN : handleConfirmDeposit(context)
    \/ \E c \in pending, aiResult \in SuggestBottleTypeOutput :
           handleConfirmDepositResolved(c, aiResult)
    \/ \E c \in pending : handleConfirmDepositRejected(c)
    \/ handleResetScanner

Spec == Init /\ [][Next]_vars

\* An awaited call settles: it returns a result or throws.
Settles ==
    \/ \E c \in pending, aiResult \in SuggestBottleTypeOutput :
           handleIdentifyBottleResolved(c, aiResult)
    \/ \E c \in pending : handleIdentifyBottleRejected(c)
    \/ \E c \in pending, aiResult \in SuggestBottleTypeOutput :
           handleConfirmDepositResolved(c, aiResult)
    \/ \E c \in pending : handleConfirmDepositRejected(c)

\* The behaviours in which every outstanding call eventually settles.
FairSpec == Spec /\ WF_vars(Settles)

----------------------------------------------------------------------------
\* Properties.  They read a call's result off last, never off the operators
\* the handlers are built from.

\* The result carries at least one candidate.
HasCandidates(r) == r.suggestions # Null /\ Len(Val(r.suggestions)) > 0

\* The label of the first candidate of a result.
FirstLabel(r) == Val(r.suggestions)[1].type

\* C1: a confirm call issued in step "confirm" that returns isDeposited = true
\* makes exactly one addBottle call, with the label the accepted identify
\* result recorded (whatever the confirm result carries), moves to "done" and
\* leaves error null.
C1_ConfirmedDepositEmitsDetectedLabel ==
    [][ (/\ last'.op = "confirmReturned"
         /\ Val(last'.call).before.validationStep = "confirm"
         /\ Val(last'.aiResult).isDeposited)
        => (/\ identified # Null
            /\ addBottleCalls' =
                   Append(addBottleCalls,
                          [type |-> Val(Val(identified).detectedBottle).type, size |-> 0])
            /\ validationStep' = "done"
            /\ error' = Null) ]_vars

\* C1 witness: a deposit was confirmed by a result that itself names another
\* label than the one emitted.
C1_Witness ==
    /\ last.op = "confirmReturned"
    /\ Val(last.aiResult).isDeposited
    /\ HasCandidates(Val(last.aiResult))
    /\ Len(addBottleCalls) > 0
    /\ FirstLabel(Val(last.aiResult)) # addBottleCalls[Len(addBottleCalls)].type

\* C2: an addBottle call is made only by the return of a confirm call with
\* isDeposited = true, issued after the identify call that was accepted since
\* the last reset; that step records no label, and the return of an identify
\* call makes no addBottle call even when it carries isDeposited = true.
C2_EmissionNeedsIdentifyThenConfirm ==
    [][ /\ (addBottleCalls' # addBottleCalls
            => (/\ last'.op = "confirmReturned"
                /\ Val(last'.call).input.validationStep = "confirm"
                /\ Val(last'.aiResult).isDeposited
                /\ identified # Null
                /\ Val(identified).id < Val(last'.call).id
                /\ identified' = identified
                /\ detectedBottle' = detectedBottle
                /\ Len(addBottleCalls') = Len(addBottleCalls) + 1))
        /\ (last'.op = "identifyReturned" => addBottleCalls' = addBottleCalls)
        /\ (detectedBottle' # detectedBottle => addBottleCalls' = addBottleCalls) ]_vars

\* C2 witness: after one emission, an identify call returns an accepted result
\* that also asserts the deposit, and nothing more is emitted.
C2_Witness ==
    /\ last.op = "identifyReturned"
    /\ Val(last.aiResult).isDeposited
    /\ Val(last.aiResult).isPlasticBottle
    /\ HasCandidates(Val(last.aiResult))
    /\ validationStep = "confirm"
    /\ Len(addBottleCalls) = 1

\* C3: an identify call issued in step "identify" that returns
\* isPlasticBottle = true with a non-empty suggestion list moves to "confirm",
\* sets detectedBottle to the first suggestion's type and leaves error null.
C3_IdentifyAcceptedRecordsFirstCandidate ==
    [][ (/\ last'.op = "identifyReturned"
         /\ Val(last'.call).before.validationStep = "identify"
         /\ Val(last'.aiResult).isPlasticBottle
         /\ HasCandidates(Val(last'.aiResult)))
        => (/\ validationStep' = "confirm"
            /\ detectedBottle' = Some([type |-> FirstLabel(Val(last'.aiResult))])
            /\ error' = Null) ]_vars

\* C3 witness: an accepted result with two different candidates.
C3_Witness ==
    /\ last.op = "identifyReturned"
    /\ Val(last.aiResult).isPlasticBottle
    /\ HasCandidates(Val(last.aiResult))
    /\ Len(Val(Val(last.aiResult).suggestions)) = 2
    /\ Val(Val(last.aiResult).suggestions)[2].type # FirstLabel(Val(last.aiResult))
    /\ validationStep = "confirm"

\* C4: an identify call that returns isPlasticBottle = false, or no or an
\* empty suggestion list, leaves the step at "identify" and detectedBottle
\* null, sets the not-a-bottle message and makes no addBottle call.
C4_IdentifyRejectedStaysIdentifying ==
    [][ (/\ last'.op = "identifyReturned"
         /\ ~(Val(last'.aiResult).isPlasticBottle /\ HasCandidates(Val(last'.aiResult))))
        => (/\ validationStep = "identify"
            /\ validationStep' = "identify"
            /\ detectedBottle' = Null
            /\ error' = Some(MsgNotBottle)
            /\ addBottleCalls' = addBottleCalls) ]_vars

\* C4 witness: a result that names candidates but is not a plastic bottle.
C4_Witness ==
    /\ last.op = "identifyReturned"
    /\ ~Val(last.aiResult).isPlasticBottle
    /\ HasCandidates(Val(last.aiResult))
    /\ validationStep = "identify"

\* C5: a confirm call that returns isDeposited = false leaves the step at
\* "confirm" and detectedBottle as it was, sets the deposit-not-confirmed
\* message and makes no addBottle call.
C5_ConfirmRejectedKeepsSession ==
    [][ (/\ last'.op = "confirmReturned"
         /\ ~Val(last'.aiResult).isDeposited)
        => (/\ validationStep = "confirm"
            /\ validationStep' = "confirm"
            /\ detectedBottle # Null
            /\ detectedBottle' = detectedBottle
            /\ detectedBottle' = Val(last'.call).before.detectedBottle
            /\ error' = Some(MsgNotDeposited)
            /\ addBottleCalls' = addBottleCalls) ]_vars

\* C5 witness: a deposit was rejected with a bottle detected.
C5_Witness ==
    /\ last.op = "confirmReturned"
    /\ ~Val(last.aiResult).isDeposited
    /\ validationStep = "confirm"
    /\ detectedBottle # Null

\* C6: when captureFrame or the service call throws, the step is the one
\* before the click, detectedBottle is what it was (null in "identify"), error
\* is the generic message of that handler and no addBottle call is made.
C6_FailureKeepsPhase ==
    [][ /\ (last'.op = "identifyCaptureFailed"
            => (/\ validationStep = "identify" /\ validationStep' = "identify"
                /\ detectedBottle = Null /\ detectedBottle' = Null
                /\ error' = Some(MsgAnalysisError)
                /\ addBottleCalls' = addBottleCalls))
        /\ (last'.op = "identifyServiceFailed"
            => (/\ Val(last'.call).before.validationStep = "identify"
                /\ validationStep' = "identify"
                /\ Val(last'.call).before.detectedBottle = Null
                /\ detectedBottle' = Null
                /\ error' = Some(MsgAnalysisError)
                /\ addBottleCalls' = addBottleCalls))
        /\ (last'.op = "confirmCaptureFailed"
            => (/\ validationStep = "confirm" /\ validationStep' = "confirm"
                /\ detectedBottle # Null /\ detectedBottle' = detectedBottle
                /\ error' = Some(MsgConfirmError)
                /\ addBottleCalls' = addBottleCalls))
        /\ (last'.op = "confirmServiceFailed"
            => (/\ Val(last'.call).before.validationStep = "confirm"
                /\ validationStep' = "confirm"
                /\ Val(last'.call).before.detectedBottle # Null
                /\ detectedBottle' = Val(last'.call).before.detectedBottle
                /\ error' = Some(MsgConfirmError)
                /\ addBottleCalls' = addBottleCalls)) ]_vars

\* C6 witness: the service failed on a confirm call.
C6_Witness ==
    /\ last.op = "confirmServiceFailed"
    /\ validationStep = "confirm"
    /\ detectedBottle # Null
    /\ error = Some(MsgConfirmError)

\* C7: from every reachable state the reset yields step "identify" with
\* detectedBottle and error null, a second reset changes nothing more, and the
\* reset click makes no addBottle call and issues no service call.
C7_ResetIsIdempotent ==
    /\ [](LET r == ResetScanner(State) IN
            /\ r.validationStep = "identify"
            /\ r.detectedBottle = Null
            /\ r.error = Null
            /\ ResetScanner(r) = r)
    /\ [][ last'.op = "reset"
           => (/\ validationStep' = "identify"
               /\ detectedBottle' = Null
               /\ error' = Null
               /\ addBottleCalls' = addBottleCalls
               /\ pending' = pending
               /\ nCalls' = nCalls) ]_vars

\* C7 witness: the reset that follows a completed deposit.
C7_Witness ==
    /\ last.op = "reset"
    /\ Len(addBottleCalls) = 1
    /\ nCalls = 2
    /\ validationStep = "identify"

\* C9: at most one service call is outstanding, and while one is, the busy
\* flag is set and no button is offered.
C9_AtMostOneOutstandingCall ==
    /\ Cardinality(pending) <= 1
    /\ (pending # {} => isDetecting /\ renderScannerContent = {})

\* C9 witness: a confirm call is outstanding.
C9_Witness ==
    /\ Cardinality(pending) = 1
    /\ validationStep = "confirm"
    /\ \E c \in pending : c.input.validationStep = "confirm"

\* The last handler part ended a confirmation in rejection or failure.
ConfirmErrorOutcome ==
    \/ last.op = "confirmReturned" /\ ~Val(last.aiResult).isDeposited
    \/ last.op \in {"confirmCaptureFailed", "confirmServiceFailed"}

\* The last handler part ended an identification in rejection or failure.
IdentifyErrorOutcome ==
    \/ (/\ last.op = "identifyReturned"
        /\ ~(Val(last.aiResult).isPlasticBottle /\ HasCandidates(Val(last.aiResult))))
    \/ last.op \in {"identifyCaptureFailed", "identifyServiceFailed"}

\* C10 as stated: after every error outcome the button of the same step is
\* offered again.
C10_RetrySamePhaseEnabled ==
    /\ (ConfirmErrorOutcome => "handleConfirmDeposit" \in renderScannerContent)
    /\ (IdentifyErrorOutcome => "handleIdentifyBottle" \in renderScannerContent)

\* C10 amended: after every error outcome the step and detectedBottle are
\* kept, but the one button offered is the reset ("Try Again"); the state after
\* a reset offers "Scan Bottle" alone.
C10_ErrorOffersOnlyReset ==
    /\ (ConfirmErrorOutcome
        => (/\ validationStep = "confirm"
            /\ identified # Null
            /\ detectedBottle = Val(identified).detectedBottle
            /\ error # Null
            /\ renderScannerContent = {"handleResetScanner"}
            /\ (mounted => DashboardPage = {"handleResetScanner"})))
    /\ (IdentifyErrorOutcome
        => (/\ validationStep = "identify"
            /\ error # Null
            /\ renderScannerContent = {"handleResetScanner"}
            /\ (mounted => DashboardPage = {"handleResetScanner"})))
    /\ (last.op = "reset" => DashboardPage = {"handleIdentifyBottle"})

\* C10 witness: a deposit was rejected and only the reset is offered.
C10_Witness ==
    /\ last.op = "confirmReturned"
    /\ ~Val(last.aiResult).isDeposited
    /\ detectedBottle # Null
    /\ mounted
    /\ DashboardPage = {"handleResetScanner"}


\* C11: while error is set no call is outstanding, the step is the one of the
\* handler that set the message, no Scan or Confirm button is offered, and the
\* only step that changes the session is the reset, which leads to "identify".
C11_ErrorBlocksUntilReset ==
    /\ [](error # Null
          => (/\ ~isDetecting
              /\ pending = {}
              /\ (error \in {Some(MsgNotBottle), Some(MsgAnalysisError)}
                  => validationStep = "identify")
              /\ (error \in {Some(MsgNotDeposited), Some(MsgConfirmError)}
                  => validationStep = "confirm")
              /\ DashboardPage \subseteq {"handleResetScanner"}
              /\ (mounted => DashboardPage = {"handleResetScanner"})))
    /\ [][ error # Null
           => (\/ (/\ last'.op = "reset"
                   /\ validationStep' = "identify"
                   /\ detectedBottle' = Null
                   /\ error' = Null)
               \/ (/\ last'.op = "unmounted"
                   /\ State' = State)) ]_vars

\* C11 witness: an identification failed and the page shows only "Try Again".
C11_Witness ==
    /\ error = Some(MsgAnalysisError)
    /\ validationStep = "identify"
    /\ mounted
    /\ DashboardPage = {"handleResetScanner"}

\* C12: every suggestBottleType call invokes exactly one prompt, the identify
\* prompt for step "identify" and the confirm prompt for step "confirm"; no
\* other step invokes a prompt, so a failed call is not retried, and the
\* failure reaches the handler, which sets its message.
C12_OneRequestPerCall ==
    /\ [](Len(prompts) = nCalls)
    /\ [][ /\ (last'.op \in {"identifyCalled", "confirmCalled"}
               => prompts' =
                      Append(prompts,
                             [prompt |-> IF Val(last'.call).input.validationStep = "identify"
                                         THEN "identifyBottlePrompt"
                                         ELSE "confirmDepositPrompt",
                              photoDataUri |-> Val(last'.call).input.photoDataUri]))
           /\ (last'.op \notin {"identifyCalled", "confirmCalled"} => prompts' = prompts)
           /\ (last'.op \in {"identifyServiceFailed", "confirmServiceFailed"}
               => (/\ pending' = pending \ {Val(last'.call)}
                   /\ nCalls' = nCalls
                   /\ error' \in {Some(MsgAnalysisError), Some(MsgConfirmError)})) ]_vars

\* C12 witness: an identify and a confirm call were made, and the confirm call
\* failed.
C12_Witness ==
    /\ last.op = "confirmServiceFailed"
    /\ Len(prompts) = 2
    /\ prompts[1].prompt = "identifyBottlePrompt"
    /\ prompts[2].prompt = "confirmDepositPrompt"

\* C13: once the page is unmounted, no stream obtained from getUserMedia has
\* running tracks, whenever getUserMedia settled and whether or not the video
\* element was there to take the stream.
C13_StreamReleasedAfterEnd == ~mounted => stream # "running"

\* C14: in step "done" no call is outstanding and only the reset is offered;
\* a step taken from "done" issues no call and makes no addBottle call, and it
\* leaves the step at "done" unless it is the reset, which leads to "identify".
C14_CompletedIsTerminal ==
    /\ [](validationStep = "done"
          => (/\ pending = {}
              /\ DashboardPage \subseteq {"handleResetScanner"}
              /\ (mounted => DashboardPage = {"handleResetScanner"})))
    /\ [][ validationStep = "done"
           => (/\ nCalls' = nCalls
               /\ prompts' = prompts
               /\ pending' = pending
               /\ addBottleCalls' = addBottleCalls
               /\ (\/ validationStep' = "done"
                   \/ (last'.op = "reset" /\ validationStep' = "identify"))) ]_vars

\* C14 witness: a deposit was just confirmed and the page offers the reset.
C14_Witness ==
    /\ validationStep = "done"
    /\ last.op = "confirmReturned"
    /\ mounted
    /\ DashboardPage = {"handleResetScanner"}

\* C15: every request sent carries step "identify" or "confirm", and the step
\* it carries is the validationStep of the page at the click.
C15_RequestStepMatchesPhase ==
    /\ [](\A c \in pending :
            /\ c.input.validationStep \in {"identify", "confirm"}
            /\ c.input.validationStep = c.before.validationStep)
    /\ [][ nCalls' # nCalls
           => (/\ last'.op \in {"identifyCalled", "confirmCalled"}
               /\ pending' = pending \cup {Val(last'.call)}
               /\ Val(last'.call).input.validationStep = validationStep
               /\ validationStep \in {"identify", "confirm"}
               /\ (last'.op = "identifyCalled" <=> validationStep = "identify")
               /\ (last'.op = "confirmCalled" <=> validationStep = "confirm")) ]_vars

\* C15 witness: a confirm request is outstanding after an earlier deposit was
\* completed.
C15_Witness ==
    /\ last.op = "confirmCalled"
    /\ Len(addBottleCalls) = 1
    /\ \E c \in pending : c.input.validationStep = "confirm" /\ c.id = 4

\* C16: the addBottle calls never outnumber the accepted identify results, and
\* each addBottle call redeems an accepted identification no other call redeems.
C16_EmissionsBoundedByIdentifications ==
    /\ Len(addBottleCalls) <= nIdentified
    /\ Len(redeemed) = Len(addBottleCalls)
    /\ \A i \in 1..Len(redeemed) : redeemed[i] # Null
    /\ \A i, j \in 1..Len(redeemed) : i # j => redeemed[i] # redeemed[j]

\* C16 witness: two deposits, each after its own accepted identification.
C16_Witness ==
    /\ Len(addBottleCalls) = 2
    /\ nIdentified = 2
    /\ redeemed[1] # redeemed[2]

\* C17: steps "confirm" and "done" have a detected bottle, step "identify" has
\* none, and handleConfirmDeposit never returns early for want of one.
C17_PhaseDeterminesDetectedBottle ==
    /\ (validationStep \in {"confirm", "done"} => detectedBottle # Null)
    /\ (validationStep = "identify" => detectedBottle = Null)
    /\ ("handleConfirmDeposit" \in DashboardPage => detectedBottle # Null)
    /\ last.op # "confirmNoBottle"

\* C17 witness: the Confirm button is offered.
C17_Witness ==
    /\ "handleConfirmDeposit" \in DashboardPage
    /\ validationStep = "confirm"
    /\ detectedBottle # Null
    /\ last.op = "identifyReturned"

\* C18: isDetecting is true exactly while a call is outstanding, error is null
\* while it is true, every outcome of a handler leaves it false, and, calls
\* settling eventually, a busy page eventually becomes idle with a button
\* offered if it is still mounted.
C18_BusyExactlyWhileOutstanding ==
    /\ [](isDetecting <=> pending # {})
    /\ [](isDetecting => error = Null)
    /\ [][ last'.op \in {"identifyReturned", "identifyServiceFailed",
                         "identifyCaptureFailed", "confirmReturned",
                         "confirmServiceFailed", "confirmCaptureFailed"}
           => ~isDetecting' ]_vars
    /\ (isDetecting ~> (~isDetecting /\ (mounted => DashboardPage # {})))

\* C18 witness: a call failed and the idle page offers a button.
C18_Witness ==
    /\ last.op = "identifyServiceFailed"
    /\ ~isDetecting
    /\ pending = {}
    /\ mounted
    /\ DashboardPage # {}

\* C19: unless hasCameraPermission is true, no call has been issued, no Scan
\* button is offered, the step is "identify" with detectedBottle and error
\* null and no addBottle call was made; the settling of getUserMedia writes
\* none of the four scan values.
C19_NoCallWithoutCamera ==
    /\ [](hasCameraPermission # Some(TRUE)
          => (/\ nCalls = 0
              /\ prompts = <<>>
              /\ pending = {}
              /\ "handleIdentifyBottle" \notin DashboardPage
              /\ validationStep = "identify"
              /\ detectedBottle = Null
              /\ error = Null
              /\ addBottleCalls = <<>>))
    /\ [][ last'.op \in {"cameraGranted", "cameraDenied"} => State' = State ]_vars

\* C19 witness: the camera was denied on a page with a user.
C19_Witness ==
    /\ hasCameraPermission = Some(FALSE)
    /\ mounted
    /\ user
    /\ DashboardPage = {}

====
